---- MODULE Spec2Model ----
(***************************************************************************)
(* Model of the per-Consumer forwarding engine of the mediasoup worker:    *)
(* RTC::Consumer (worker/src/RTC/Consumer.cpp) and RTC::SimpleConsumer     *)
(* (worker/src/RTC/SimpleConsumer.cpp).                                    *)
(*                                                                         *)
(* One SimpleConsumer is modelled.  Every handler of the C++ class is one  *)
(* action; the event loop is single threaded, so a handler runs to its end *)
(* before the next one starts.  The variable `last` holds what the most    *)
(* recent handler did: the calls it made on its collaborators, in order,   *)
(* the error it raised, and for SendRtpPacket the packet on entry, as      *)
(* handed to the send stream, and on return.                               *)
(***************************************************************************)
EXTENDS Integers, Sequences, FiniteSets, TLC

VARIABLES
    kind,                \* Consumer::kind
    keyFrameSupported,   \* SimpleConsumer::keyFrameSupported
    paused,              \* Consumer::paused
    producerPaused,      \* Consumer::producerPaused
    producerClosed,      \* Consumer::producerClosed
    transportConnected,  \* Consumer::transportConnected
    producerRtpStream,   \* SimpleConsumer::producerRtpStream (TRUE: set, FALSE: nullptr)
    syncRequired,        \* SimpleConsumer::syncRequired
    packetEventTypes,    \* Consumer::packetEventTypes
    rtpStreamPaused,     \* pause bit of the RtpStreamSend owned by the Consumer
    rtpSeqManager,       \* SimpleConsumer::rtpSeqManager
    admitted,            \* the most recent packet that passed the admission rules
    nPackets,            \* number of packets admitted so far
    last,                \* what the most recent handler did
    lastRtcpSentTime,    \* Consumer::lastRtcpSentTime
    rtpStreamSent,       \* the send stream has sent a packet (its packet count is not 0)
    rtcpLog,             \* the GetRtcp calls so far, oldest first
    udpClosed,           \* UdpSocket::closed (uvHandle->data is nullptr exactly then)
    sentBytes,           \* UdpSocket::sentBytes
    udpSends,            \* the Send calls so far, oldest first
    udpPending,          \* the uv_udp_send requests libuv has not completed, oldest first
    availableBitrate,               \* TransportCongestionControlClient::availableBitrate
    availableBitrateEventCalled,    \* ...::availableBitrateEventCalled
    lastAvailableBitrateEventAtMs,  \* ...::lastAvailableBitrateEventAtMs
    tccLog               \* the MayEmitAvailableBitrateEvent calls so far, oldest first

consumerVars == <<kind, keyFrameSupported, paused, producerPaused, producerClosed,
                  transportConnected, producerRtpStream, syncRequired,
                  packetEventTypes, rtpStreamPaused, rtpSeqManager>>

\* The state of the RTCP timer path.
rtcpVars == <<lastRtcpSentTime, rtpStreamSent, rtcpLog>>

\* The state of the UdpSocket.
udpVars == <<udpClosed, sentBytes, udpSends, udpPending>>

\* The state of the TransportCongestionControlClient.
tccVars == <<availableBitrate, availableBitrateEventCalled,
             lastAvailableBitrateEventAtMs, tccLog>>

\* What the handlers of the packet path and of the control channel leave alone.
otherVars == <<rtcpVars, udpVars, tccVars>>

\* The Consumer as the packet path and the control channel see it.
mediaVars == <<consumerVars, admitted, nPackets>>

vars == <<kind, keyFrameSupported, paused, producerPaused, producerClosed,
          transportConnected, producerRtpStream, syncRequired, packetEventTypes,
          rtpStreamPaused, rtpSeqManager, admitted, nPackets, last, otherVars>>

(***************************************************************************)
(* Bounds of the model.                                                    *)
(***************************************************************************)
\* Packets admitted by SendRtpPacket in one behaviour.
MaxPackets == 3
\* Length of the "types" arrays enumerated for ENABLE_PACKET_EVENT.
MaxTypes == 1

(***************************************************************************)
(* Program constants.                                                      *)
(***************************************************************************)
\* uint16_t sequence numbers: arithmetic is modulo 2^16.
SeqModulus == 65536
\* Half of the sequence number space: a is ahead of b when (a - b) mod 2^16
\* lies in 1 .. SeqHalf - 1.
SeqHalf == 32768
\* rtpParameters.encodings[0].ssrc, the SSRC the receiver expects.
OutgoingSsrc == 1111
\* SSRC of the packets as they come from the Producer side.
ProducerSsrc == 2222
\* A payload type of supportedCodecPayloadTypes, and one that is not.
SupportedPayloadType == 100
OtherPayloadType == 101

supportedCodecPayloadTypes == {SupportedPayloadType}
PayloadTypes == {SupportedPayloadType, OtherPayloadType}
\* Original sequence numbers fed to SendRtpPacket: a wrap (65535 -> 0), a gap
\* (0 -> 2) and every reordering of them.
SeqValues == {0, 2, 65535}

Mod16(x) == x % SeqModulus

(***************************************************************************)
(* JSON values of a request's data, as far as the handlers look at them:   *)
(* the type of the value, the text of a string, the elements of an array.  *)
(***************************************************************************)
JString(s) == [type |-> "string", str |-> s]
JNumber == [type |-> "number", str |-> ""]
\* data has no member "types"
TypesMissing == [type |-> "missing", items |-> <<>>]
\* data.types is a string, not an array
TypesNotArray == [type |-> "string", items |-> <<>>]
TypesArray(items) == [type |-> "array", items |-> items]
NoData == [type |-> "none", items |-> <<>>]

(***************************************************************************)
(* RTP packets: the fields SendRtpPacket reads and writes.                 *)
(***************************************************************************)
Packet(ssrc, seq, pt, kf) ==
    [ssrc |-> ssrc, seq |-> seq, payloadType |-> pt, isKeyFrame |-> kf]
NoPacket == [ssrc |-> 0, seq |-> 0, payloadType |-> 0, isKeyFrame |-> FALSE]

(***************************************************************************)
(* What a handler did.                                                     *)
(***************************************************************************)
Result(op, calls) ==
    [op |-> op, types |-> NoData, calls |-> calls, error |-> "none",
     entry |-> NoPacket, wire |-> NoPacket, ret |-> NoPacket]
RequestResult(op, types, calls, error) ==
    [op |-> op, types |-> types, calls |-> calls, error |-> error,
     entry |-> NoPacket, wire |-> NoPacket, ret |-> NoPacket]
PacketResult(calls, entry, wire, ret) ==
    [op |-> "SendRtpPacket", types |-> NoData, calls |-> calls, error |-> "none",
     entry |-> entry, wire |-> wire, ret |-> ret]

\* Number of times `name` occurs in the sequence of calls.
Count(name, calls) == Cardinality({i \in 1..Len(calls) : calls[i] = name})

(***************************************************************************)
(* The gating flags, as one record, so that IsActive() can be evaluated at *)
(* the point of the handler where the code evaluates it.                   *)
(***************************************************************************)
Flags ==
    [transportConnected |-> transportConnected, paused |-> paused,
     producerPaused |-> producerPaused, producerClosed |-> producerClosed,
     producerRtpStream |-> producerRtpStream]

\* SimpleConsumer::IsActive(): Consumer::IsActive() and a producer stream.
IsActiveOf(c) ==
    /\ c.transportConnected
    /\ ~c.paused
    /\ ~c.producerPaused
    /\ ~c.producerClosed
    /\ c.producerRtpStream

IsActive == IsActiveOf(Flags)

(***************************************************************************)
(* RTC::SeqManager<uint16_t>: the sequence number remapper.  Its state is  *)
(* the offset added to every input (base) and the highest output so far    *)
(* (maxOutput).  Sync(input) moves the offset so that input maps onto the  *)
(* highest output so far, hence input + 1 onto the next free output.       *)
(***************************************************************************)
SeqSync(mgr, input) ==
    [base |-> Mod16(mgr.maxOutput - input), maxOutput |-> mgr.maxOutput]

SeqInput(mgr, input) ==
    LET output == Mod16(input + mgr.base)
        ahead == Mod16(output - mgr.maxOutput) < SeqHalf
    IN [mgr |-> [base |-> mgr.base,
                 maxOutput |-> IF ahead THEN output ELSE mgr.maxOutput],
        output |-> output]

(***************************************************************************)
(* SimpleConsumer: key frame requests and the UserOn* hooks.  Each hook    *)
(* yields the calls it makes; c is the flags at the point of the call.     *)
(***************************************************************************)
RequestKeyFrame ==
    IF kind # "video" THEN <<>> ELSE <<"OnConsumerKeyFrameRequested">>

\* Sets syncRequired = true; the calls are those of the hook.
UserOnTransportConnected(c) ==
    <<"UserOnTransportConnected">> \o (IF IsActiveOf(c) THEN RequestKeyFrame ELSE <<>>)

\* Pauses the send stream.
UserOnTransportDisconnected == <<"UserOnTransportDisconnected", "rtpStream.Pause">>

\* Pauses the send stream.
UserOnPaused == <<"UserOnPaused", "rtpStream.Pause">>

\* Mutant of UserOnResumed: the hook requests no key frame.
UserOnResumedNoKeyFrame(c) == <<"UserOnResumed">>

\* Sets syncRequired = true; the calls are those of the hook.
UserOnResumed(c) ==
    <<"UserOnResumed">> \o (IF IsActiveOf(c) THEN RequestKeyFrame ELSE <<>>)

EmitScore == <<"Emit:score">>

EmitPacketEventRtpType ==
    IF ~packetEventTypes.rtp THEN <<>> ELSE <<"Emit:packet:rtp">>

EmitPacketEventPliType ==
    IF ~packetEventTypes.pli THEN <<>> ELSE <<"Emit:packet:pli">>

EmitPacketEventFirType ==
    IF ~packetEventTypes.fir THEN <<>> ELSE <<"Emit:packet:fir">>

EmitPacketEventNackType ==
    IF ~packetEventTypes.nack THEN <<>> ELSE <<"Emit:packet:nack">>

(***************************************************************************)
(* SimpleConsumer::SendRtpPacket.                                          *)
(***************************************************************************)
\* Mutant of DropReason: the IsActive() test is missing.
DropReasonNoActiveGate(packet) ==
    IF packet.payloadType \notin supportedCodecPayloadTypes THEN "payloadType"
    ELSE IF syncRequired /\ keyFrameSupported /\ ~packet.isKeyFrame THEN "keyFrame"
    ELSE "none"

\* Mutant of DropReason: the key frame test is missing.
DropReasonNoKeyFrameGate(packet) ==
    IF ~IsActive THEN "inactive"
    ELSE IF packet.payloadType \notin supportedCodecPayloadTypes THEN "payloadType"
    ELSE "none"

\* The admission rules, in the order of the code: why the packet is dropped,
\* or "none" when it is admitted.
DropReason(packet) ==
    IF ~IsActive THEN "inactive"
    ELSE IF packet.payloadType \notin supportedCodecPayloadTypes THEN "payloadType"
    ELSE IF syncRequired /\ keyFrameSupported /\ ~packet.isKeyFrame THEN "keyFrame"
    ELSE "none"

\* Mutant of RemapSeq: Sync is called for every packet.
RemapSeqAlwaysSync(packet) ==
    SeqInput(SeqSync(rtpSeqManager, Mod16(packet.seq - 1)), packet.seq)

\* Mutant of RemapSeq: Sync is given the sequence number of the packet itself.
RemapSeqSyncOffByOne(packet) ==
    LET isSyncPacket == syncRequired
        synced == IF isSyncPacket
                  THEN SeqSync(rtpSeqManager, packet.seq)
                  ELSE rtpSeqManager
    IN SeqInput(synced, packet.seq)

\* Sync sequence number if this is the first packet after re-sync, then update
\* the RTP seq number: the remapper afterwards, and the output of Input.
RemapSeq(packet) ==
    LET isSyncPacket == syncRequired
        synced == IF isSyncPacket
                  THEN SeqSync(rtpSeqManager, Mod16(packet.seq - 1))
                  ELSE rtpSeqManager
    IN SeqInput(synced, packet.seq)

\* Rewrite packet.
RewritePacket(packet, seq) ==
    [packet EXCEPT !.ssrc = OutgoingSsrc, !.seq = seq]

\* Mutant of RestorePacket: the sequence number is not restored.
RestorePacketSsrcOnly(packet, origSsrc, origSeq) ==
    [packet EXCEPT !.ssrc = origSsrc]

\* Restore packet fields.
RestorePacket(packet, origSsrc, origSeq) ==
    [packet EXCEPT !.ssrc = origSsrc, !.seq = origSeq]

\* The call of RtpStreamSend::ReceivePacket with the value it returns.
RtpStreamReceivePacket(accepted) ==
    IF accepted THEN "rtpStream.ReceivePacket:true"
    ELSE "rtpStream.ReceivePacket:false"

\* Mutant of ProcessPacket: the packet is transmitted whatever the send
\* stream returns.
ProcessPacketIgnoresResult(accepted) ==
    <<RtpStreamReceivePacket(accepted), "OnConsumerSendRtpPacket">>
        \o EmitPacketEventRtpType

\* Process the packet: the calls made when the send stream accepts it or not.
ProcessPacket(accepted) ==
    IF accepted
    THEN <<RtpStreamReceivePacket(accepted), "OnConsumerSendRtpPacket">>
             \o EmitPacketEventRtpType
    ELSE <<RtpStreamReceivePacket(accepted)>>

\* The packets a Producer may hand over: only a codec with key frames marks
\* packets as key frames.
Packets ==
    {Packet(ProducerSsrc, seq, pt, kf) :
        seq \in SeqValues, pt \in PayloadTypes,
        kf \in IF keyFrameSupported THEN BOOLEAN ELSE {FALSE}}

SendRtpPacket ==
    \E packet \in Packets :
        IF DropReason(packet) # "none"
        THEN /\ last' = PacketResult(<<>>, packet, NoPacket, packet)
             /\ UNCHANGED <<consumerVars, admitted, nPackets, otherVars>>
        ELSE \E accepted \in BOOLEAN :
             LET remap == RemapSeq(packet)
                 origSsrc == packet.ssrc
                 origSeq == packet.seq
                 wire == RewritePacket(packet, remap.output)
                 entry == [orig |-> origSeq, wire |-> wire.seq, sync |-> syncRequired]
             IN /\ nPackets < MaxPackets
                /\ nPackets' = nPackets + 1
                /\ syncRequired' = FALSE
                /\ rtpSeqManager' = remap.mgr
                /\ admitted' = (IF admitted = <<>> THEN <<>>
                                ELSE <<admitted[Len(admitted)]>>) \o <<entry>>
                /\ last' = PacketResult(ProcessPacket(accepted), packet, wire,
                                        RestorePacket(wire, origSsrc, origSeq))
                /\ UNCHANGED <<kind, keyFrameSupported, paused, producerPaused,
                               producerClosed, transportConnected, producerRtpStream,
                               packetEventTypes, rtpStreamPaused, otherVars>>

(***************************************************************************)
(* Consumer: transport and producer events.                                *)
(***************************************************************************)
\* Mutant of TransportConnected: the hook does not set syncRequired.
TransportConnectedNoSync ==
    LET calls == UserOnTransportConnected([Flags EXCEPT !.transportConnected = TRUE])
    IN /\ transportConnected' = TRUE
       /\ last' = Result("TransportConnected", calls)
       /\ UNCHANGED <<kind, keyFrameSupported, paused, producerPaused, producerClosed,
                      producerRtpStream, syncRequired, packetEventTypes,
                      rtpStreamPaused, rtpSeqManager, admitted, nPackets, otherVars>>

TransportConnected ==
    LET calls == UserOnTransportConnected([Flags EXCEPT !.transportConnected = TRUE])
    IN /\ transportConnected' = TRUE
       /\ syncRequired' = TRUE
       /\ last' = Result("TransportConnected", calls)
       /\ UNCHANGED <<kind, keyFrameSupported, paused, producerPaused, producerClosed,
                      producerRtpStream, packetEventTypes, rtpStreamPaused,
                      rtpSeqManager, admitted, nPackets, otherVars>>

TransportDisconnected ==
    /\ transportConnected' = FALSE
    /\ rtpStreamPaused' = TRUE
    /\ last' = Result("TransportDisconnected", UserOnTransportDisconnected)
    /\ UNCHANGED <<kind, keyFrameSupported, paused, producerPaused, producerClosed,
                   producerRtpStream, syncRequired, packetEventTypes,
                   rtpSeqManager, admitted, nPackets, otherVars>>

\* Mutant of ProducerPaused: no early return for a Producer already paused.
ProducerPausedNoEarlyReturn ==
    LET wasActive == IsActive
    IN /\ producerPaused' = TRUE
       /\ rtpStreamPaused' = (wasActive \/ rtpStreamPaused)
       /\ last' = Result("ProducerPaused",
                         (IF wasActive THEN UserOnPaused ELSE <<>>)
                             \o <<"Emit:producerpause">>)
       /\ UNCHANGED <<kind, keyFrameSupported, paused, producerClosed,
                      transportConnected, producerRtpStream, syncRequired,
                      packetEventTypes, rtpSeqManager, admitted, nPackets, otherVars>>

ProducerPaused ==
    IF producerPaused
    THEN /\ last' = Result("ProducerPaused", <<>>)
         /\ UNCHANGED <<consumerVars, admitted, nPackets, otherVars>>
    ELSE LET wasActive == IsActive
         IN /\ producerPaused' = TRUE
            /\ rtpStreamPaused' = (wasActive \/ rtpStreamPaused)
            /\ last' = Result("ProducerPaused",
                              (IF wasActive THEN UserOnPaused ELSE <<>>)
                                  \o <<"Emit:producerpause">>)
            /\ UNCHANGED <<kind, keyFrameSupported, paused, producerClosed,
                           transportConnected, producerRtpStream, syncRequired,
                           packetEventTypes, rtpSeqManager, admitted, nPackets, otherVars>>

\* Mutant of ProducerResumed: the resume hook does not set syncRequired.
ProducerResumedNoSync ==
    IF ~producerPaused
    THEN /\ last' = Result("ProducerResumed", <<>>)
         /\ UNCHANGED <<consumerVars, admitted, nPackets, otherVars>>
    ELSE LET c == [Flags EXCEPT !.producerPaused = FALSE]
         IN /\ producerPaused' = FALSE
            /\ last' = Result("ProducerResumed",
                              (IF IsActiveOf(c) THEN UserOnResumed(c) ELSE <<>>)
                                  \o <<"Emit:producerresume">>)
            /\ UNCHANGED <<kind, keyFrameSupported, paused, producerClosed,
                           transportConnected, producerRtpStream, syncRequired,
                           packetEventTypes, rtpStreamPaused, rtpSeqManager,
                           admitted, nPackets, otherVars>>

ProducerResumed ==
    IF ~producerPaused
    THEN /\ last' = Result("ProducerResumed", <<>>)
         /\ UNCHANGED <<consumerVars, admitted, nPackets, otherVars>>
    ELSE LET c == [Flags EXCEPT !.producerPaused = FALSE]
         IN /\ producerPaused' = FALSE
            /\ syncRequired' = (IsActiveOf(c) \/ syncRequired)
            /\ last' = Result("ProducerResumed",
                              (IF IsActiveOf(c) THEN UserOnResumed(c) ELSE <<>>)
                                  \o <<"Emit:producerresume">>)
            /\ UNCHANGED <<kind, keyFrameSupported, paused, producerClosed,
                           transportConnected, producerRtpStream, packetEventTypes,
                           rtpStreamPaused, rtpSeqManager, admitted, nPackets, otherVars>>

ProducerClosed ==
    /\ producerClosed' = TRUE
    /\ last' = Result("ProducerClosed", <<"Emit:producerclose", "OnConsumerProducerClosed">>)
    /\ UNCHANGED <<kind, keyFrameSupported, paused, producerPaused, transportConnected,
                   producerRtpStream, syncRequired, packetEventTypes, rtpStreamPaused,
                   rtpSeqManager, admitted, nPackets, otherVars>>

ProducerRtpStream ==
    /\ producerRtpStream' = TRUE
    /\ last' = Result("ProducerRtpStream", EmitScore)
    /\ UNCHANGED <<kind, keyFrameSupported, paused, producerPaused, producerClosed,
                   transportConnected, syncRequired, packetEventTypes, rtpStreamPaused,
                   rtpSeqManager, admitted, nPackets, otherVars>>

ProducerNewRtpStream ==
    /\ producerRtpStream' = TRUE
    /\ last' = Result("ProducerNewRtpStream", EmitScore)
    /\ UNCHANGED <<kind, keyFrameSupported, paused, producerPaused, producerClosed,
                   transportConnected, syncRequired, packetEventTypes, rtpStreamPaused,
                   rtpSeqManager, admitted, nPackets, otherVars>>

(***************************************************************************)
(* SimpleConsumer: RTCP feedback from the remote endpoint.                 *)
(***************************************************************************)
\* Packets the send stream retransmits for one NACK.
MaxRetransmissions == 2

\* The message types of ReceiveKeyFrameRequest: PLI, FIR, and any other.
MessageTypes == {"PLI", "FIR", "OTHER"}

\* SimpleConsumer::OnRtpStreamRetransmitRtpPacket, called by the send stream
\* for each packet it retransmits.
OnRtpStreamRetransmitRtpPacket ==
    <<"OnConsumerRetransmitRtpPacket">> \o EmitPacketEventRtpType

\* RtpStreamSend::ReceiveNack retransmitting n packets.
RECURSIVE RtpStreamReceiveNack(_)
RtpStreamReceiveNack(n) ==
    IF n = 0 THEN <<"rtpStream.ReceiveNack">>
    ELSE RtpStreamReceiveNack(n - 1) \o OnRtpStreamRetransmitRtpPacket

\* Mutant of ReceiveNackCalls: the IsActive() test is missing.
ReceiveNackCallsNoActiveGate(n) ==
    EmitPacketEventNackType \o RtpStreamReceiveNack(n)

\* The calls of SimpleConsumer::ReceiveNack for a NACK that makes the send
\* stream retransmit n packets.
ReceiveNackCalls(n) ==
    IF ~IsActive THEN <<>>
    ELSE EmitPacketEventNackType \o RtpStreamReceiveNack(n)

ReceiveNack ==
    \E n \in 0..MaxRetransmissions :
        /\ last' = Result("ReceiveNack", ReceiveNackCalls(n))
        /\ UNCHANGED <<consumerVars, admitted, nPackets, otherVars>>

\* Mutant of ReceiveKeyFrameRequestCalls: the IsActive() test is missing.
ReceiveKeyFrameRequestCallsNoActiveGate(messageType) ==
    (IF messageType = "PLI" THEN EmitPacketEventPliType
     ELSE IF messageType = "FIR" THEN EmitPacketEventFirType
     ELSE <<>>)
        \o <<"rtpStream.ReceiveKeyFrameRequest">>
        \o RequestKeyFrame

\* The calls of SimpleConsumer::ReceiveKeyFrameRequest.
ReceiveKeyFrameRequestCalls(messageType) ==
    (IF messageType = "PLI" THEN EmitPacketEventPliType
     ELSE IF messageType = "FIR" THEN EmitPacketEventFirType
     ELSE <<>>)
        \o <<"rtpStream.ReceiveKeyFrameRequest">>
        \o (IF IsActive THEN RequestKeyFrame ELSE <<>>)

ReceiveKeyFrameRequest ==
    \E messageType \in MessageTypes :
        /\ last' = [Result("ReceiveKeyFrameRequest",
                           ReceiveKeyFrameRequestCalls(messageType))
                       EXCEPT !.types = JString(messageType)]
        /\ UNCHANGED <<consumerVars, admitted, nPackets, otherVars>>

(***************************************************************************)
(* Consumer::HandleRequest and SimpleConsumer::HandleRequest.              *)
(***************************************************************************)
NoPacketEventTypes == [rtp |-> FALSE, nack |-> FALSE, pli |-> FALSE, fir |-> FALSE]

\* One element of the "types" array: the string typeStr sets its flag.
SetPacketEventType(new, typeStr) ==
    IF typeStr = "rtp" THEN [new EXCEPT !.rtp = TRUE]
    ELSE IF typeStr = "nack" THEN [new EXCEPT !.nack = TRUE]
    ELSE IF typeStr = "pli" THEN [new EXCEPT !.pli = TRUE]
    ELSE IF typeStr = "fir" THEN [new EXCEPT !.fir = TRUE]
    ELSE new

\* The loop over the array, from element i on: it throws at the first element
\* that is not a string.
RECURSIVE FillPacketEventTypes(_, _, _)
FillPacketEventTypes(items, i, new) ==
    IF i > Len(items) THEN [error |-> "none", types |-> new]
    ELSE IF items[i].type # "string" THEN [error |-> "TypeError", types |-> new]
    ELSE FillPacketEventTypes(items, i + 1, SetPacketEventType(new, items[i].str))

\* Mutant of EnablePacketEvent: the new flags start from the current ones.
EnablePacketEventNoReset(types) ==
    IF types.type # "array"
    THEN [error |-> "TypeError", packetEventTypes |-> packetEventTypes, calls |-> <<>>]
    ELSE LET filled == FillPacketEventTypes(types.items, 1, packetEventTypes)
         IN IF filled.error # "none"
            THEN [error |-> filled.error, packetEventTypes |-> packetEventTypes,
                  calls |-> <<>>]
            ELSE [error |-> "none", packetEventTypes |-> filled.types,
                  calls |-> <<"Accept">>]

\* Mutant of EnablePacketEvent: the loop writes this->packetEventTypes itself.
EnablePacketEventInPlace(types) ==
    IF types.type # "array"
    THEN [error |-> "TypeError", packetEventTypes |-> packetEventTypes, calls |-> <<>>]
    ELSE LET filled == FillPacketEventTypes(types.items, 1, NoPacketEventTypes)
         IN IF filled.error # "none"
            THEN [error |-> filled.error, packetEventTypes |-> filled.types,
                  calls |-> <<>>]
            ELSE [error |-> "none", packetEventTypes |-> filled.types,
                  calls |-> <<"Accept">>]

\* CONSUMER_ENABLE_PACKET_EVENT: the error thrown, this->packetEventTypes when
\* the handler is left, and the calls made.
EnablePacketEvent(types) ==
    IF types.type # "array"
    THEN [error |-> "TypeError", packetEventTypes |-> packetEventTypes, calls |-> <<>>]
    ELSE LET filled == FillPacketEventTypes(types.items, 1, NoPacketEventTypes)
         IN IF filled.error # "none"
            THEN [error |-> filled.error, packetEventTypes |-> packetEventTypes,
                  calls |-> <<>>]
            ELSE [error |-> "none", packetEventTypes |-> filled.types,
                  calls |-> <<"Accept">>]

\* The elements a "types" array is built from: the four recognised names, an
\* unknown name, and a value that is not a string.
TypeElems ==
    {JString("rtp"), JString("nack"), JString("pli"), JString("fir"),
     JString("garbage"), JNumber}

\* Two longer arrays: recognised names around an unknown one, and a value that
\* is not a string between two recognised names.
ScenarioTypes == <<JString("rtp"), JString("garbage"), JString("nack")>>
MalformedTypes == <<JString("pli"), JNumber, JString("fir")>>

TypesValues ==
    {TypesMissing, TypesNotArray, TypesArray(ScenarioTypes), TypesArray(MalformedTypes)}
        \cup {TypesArray(items) :
                items \in UNION {[1..n -> TypeElems] : n \in 0..MaxTypes}}

ConsumerDump ==
    /\ last' = RequestResult("CONSUMER_DUMP", NoData, <<"FillJson", "Accept">>, "none")
    /\ UNCHANGED <<consumerVars, admitted, nPackets, otherVars>>

ConsumerGetStats ==
    /\ last' = RequestResult("CONSUMER_GET_STATS", NoData,
                             <<"FillJsonStats", "Accept">>, "none")
    /\ UNCHANGED <<consumerVars, admitted, nPackets, otherVars>>

\* Mutant of ConsumerPause: UserOnPaused is called whether or not the Consumer
\* was active.
ConsumerPauseAlwaysUserOnPaused ==
    IF paused
    THEN /\ last' = RequestResult("CONSUMER_PAUSE", NoData, <<"Accept">>, "none")
         /\ UNCHANGED <<consumerVars, admitted, nPackets, otherVars>>
    ELSE /\ paused' = TRUE
         /\ rtpStreamPaused' = TRUE
         /\ last' = RequestResult("CONSUMER_PAUSE", NoData,
                                  UserOnPaused \o <<"Accept">>, "none")
         /\ UNCHANGED <<kind, keyFrameSupported, producerPaused, producerClosed,
                        transportConnected, producerRtpStream, syncRequired,
                        packetEventTypes, rtpSeqManager, admitted, nPackets, otherVars>>

ConsumerPause ==
    IF paused
    THEN /\ last' = RequestResult("CONSUMER_PAUSE", NoData, <<"Accept">>, "none")
         /\ UNCHANGED <<consumerVars, admitted, nPackets, otherVars>>
    ELSE LET wasActive == IsActive
         IN /\ paused' = TRUE
            /\ rtpStreamPaused' = (wasActive \/ rtpStreamPaused)
            /\ last' = RequestResult("CONSUMER_PAUSE", NoData,
                                     (IF wasActive THEN UserOnPaused ELSE <<>>)
                                         \o <<"Accept">>, "none")
            /\ UNCHANGED <<kind, keyFrameSupported, producerPaused, producerClosed,
                           transportConnected, producerRtpStream, syncRequired,
                           packetEventTypes, rtpSeqManager, admitted, nPackets, otherVars>>

\* Mutant of ConsumerResume: no early return for a Consumer that is not paused.
ConsumerResumeNoEarlyReturn ==
    LET c == [Flags EXCEPT !.paused = FALSE]
    IN /\ paused' = FALSE
       /\ syncRequired' = (IsActiveOf(c) \/ syncRequired)
       /\ last' = RequestResult("CONSUMER_RESUME", NoData,
                                (IF IsActiveOf(c) THEN UserOnResumed(c) ELSE <<>>)
                                    \o <<"Accept">>, "none")
       /\ UNCHANGED <<kind, keyFrameSupported, producerPaused, producerClosed,
                      transportConnected, producerRtpStream, packetEventTypes,
                      rtpStreamPaused, rtpSeqManager, admitted, nPackets, otherVars>>

\* Mutant of ConsumerResume: the resume hook resumes the send stream.
ConsumerResumeResumesStream ==
    IF ~paused
    THEN /\ last' = RequestResult("CONSUMER_RESUME", NoData, <<"Accept">>, "none")
         /\ UNCHANGED <<consumerVars, admitted, nPackets, otherVars>>
    ELSE LET c == [Flags EXCEPT !.paused = FALSE]
         IN /\ paused' = FALSE
            /\ syncRequired' = (IsActiveOf(c) \/ syncRequired)
            /\ rtpStreamPaused' = (~IsActiveOf(c) /\ rtpStreamPaused)
            /\ last' = RequestResult("CONSUMER_RESUME", NoData,
                                     (IF IsActiveOf(c) THEN UserOnResumed(c) ELSE <<>>)
                                         \o <<"Accept">>, "none")
            /\ UNCHANGED <<kind, keyFrameSupported, producerPaused, producerClosed,
                           transportConnected, producerRtpStream, packetEventTypes,
                           rtpSeqManager, admitted, nPackets, otherVars>>

ConsumerResume ==
    IF ~paused
    THEN /\ last' = RequestResult("CONSUMER_RESUME", NoData, <<"Accept">>, "none")
         /\ UNCHANGED <<consumerVars, admitted, nPackets, otherVars>>
    ELSE LET c == [Flags EXCEPT !.paused = FALSE]
         IN /\ paused' = FALSE
            /\ syncRequired' = (IsActiveOf(c) \/ syncRequired)
            /\ last' = RequestResult("CONSUMER_RESUME", NoData,
                                     (IF IsActiveOf(c) THEN UserOnResumed(c) ELSE <<>>)
                                         \o <<"Accept">>, "none")
            /\ UNCHANGED <<kind, keyFrameSupported, producerPaused, producerClosed,
                           transportConnected, producerRtpStream, packetEventTypes,
                           rtpStreamPaused, rtpSeqManager, admitted, nPackets, otherVars>>

ConsumerEnablePacketEvent ==
    \E types \in TypesValues :
        LET out == EnablePacketEvent(types)
        IN /\ packetEventTypes' = out.packetEventTypes
           /\ last' = RequestResult("CONSUMER_ENABLE_PACKET_EVENT", types,
                                    out.calls, out.error)
           /\ UNCHANGED <<kind, keyFrameSupported, paused, producerPaused,
                          producerClosed, transportConnected, producerRtpStream,
                          syncRequired, rtpStreamPaused, rtpSeqManager, admitted,
                          nPackets, otherVars>>

ConsumerRequestKeyFrame ==
    /\ last' = RequestResult("CONSUMER_REQUEST_KEY_FRAME", NoData,
                             (IF IsActive THEN RequestKeyFrame ELSE <<>>)
                                 \o <<"Accept">>, "none")
    /\ UNCHANGED <<consumerVars, admitted, nPackets, otherVars>>

\* Mutant of UnknownMethod: the default case does nothing.
UnknownMethodIgnored ==
    /\ last' = RequestResult("UNKNOWN", NoData, <<>>, "none")
    /\ UNCHANGED <<consumerVars, admitted, nPackets, otherVars>>

\* Any method id the Consumer does not know.
UnknownMethod ==
    /\ last' = RequestResult("UNKNOWN", NoData, <<>>, "Error")
    /\ UNCHANGED <<consumerVars, admitted, nPackets, otherVars>>

(***************************************************************************)
(* TransportCongestionControlClient: the available bitrate event.          *)
(***************************************************************************)
\* MayEmitAvailableBitrateEvent calls in one behaviour.
MaxBitrateUpdates == 4

\* The initialAvailableBitrate given to the constructor.
InitialAvailableBitrate == 1000
\* The relative change, in percent, above which the event is emitted at once.
AvailableBitrateThresholdPercent == 8
\* The interval after which the event is emitted whatever the change.
AvailableBitrateEventInterval == 1000
Hundred == 100

\* The values of the estimate: the initial one, a change of 1 % and a change
\* of about 10 % from either.
BitrateValues == {1000, 1010, 1100}
\* The times of the calls: an update 50 ms and one 100 ms after the first, one
\* at the end of the interval (950 ms after the update at 50 ms), and one
\* 1.5 s after the update at 100 ms.
TccTimeValues == {0, 50, 100, 1000, 1600}

\* |current - previous| / previous is above the threshold.
AboveThreshold(previous, current) ==
    LET change == IF current >= previous THEN current - previous
                                          ELSE previous - current
    IN change * Hundred > previous * AvailableBitrateThresholdPercent

\* Mutant of MayEmitAvailableBitrateEvent: the interval since the last event
\* is not looked at.
MayEmitAvailableBitrateEventNoInterval(previousAvailableBitrate, nowMs, stable) ==
    IF ~availableBitrateEventCalled THEN TRUE
    ELSE \/ AboveThreshold(previousAvailableBitrate, availableBitrate')
         \/ ~stable

\* Whether the call emits the event: the first call does; a later one does if
\* the new availableBitrate differs from the previous one by more than the
\* threshold, or the interval has elapsed since the last event, or the trend
\* of the desired bitrate is not stable.
MayEmitAvailableBitrateEvent(previousAvailableBitrate, nowMs, stable) ==
    IF ~availableBitrateEventCalled THEN TRUE
    ELSE \/ AboveThreshold(previousAvailableBitrate, availableBitrate')
         \/ nowMs - lastAvailableBitrateEventAtMs >= AvailableBitrateEventInterval
         \/ ~stable

\* OnTargetTransferRate: the estimator gives a new target rate; the client
\* stores it and calls MayEmitAvailableBitrateEvent with the previous one.
\* The clock of the event loop never goes back.
OnTargetTransferRate ==
    \E bitrate \in BitrateValues, nowMs \in TccTimeValues, stable \in BOOLEAN :
        LET previousAvailableBitrate == availableBitrate
            emit == MayEmitAvailableBitrateEvent(previousAvailableBitrate, nowMs, stable)
            calls == IF emit
                     THEN <<"OnTransportCongestionControlClientAvailableBitrate">>
                     ELSE <<>>
        IN /\ Len(tccLog) < MaxBitrateUpdates
           /\ tccLog # <<>> => nowMs >= tccLog[Len(tccLog)].nowMs
           /\ tccLog = <<>> => stable
           /\ availableBitrate' = bitrate
           /\ availableBitrateEventCalled' = (emit \/ availableBitrateEventCalled)
           /\ lastAvailableBitrateEventAtMs' =
                  (IF emit THEN nowMs ELSE lastAvailableBitrateEventAtMs)
           /\ tccLog' = Append(tccLog,
                  [nowMs |-> nowMs, previous |-> previousAvailableBitrate,
                   current |-> bitrate, stable |-> stable,
                   lastEventAtMs |-> lastAvailableBitrateEventAtMs,
                   calls |-> calls])
           /\ last' = Result("OnTargetTransferRate", calls)
           /\ UNCHANGED <<mediaVars, rtcpVars, udpVars>>

(***************************************************************************)
(* The Consumer after its construction: the kind and the codec come from   *)
(* the parameters, and so does the initial paused flag.                    *)
(***************************************************************************)
Init ==
    /\ kind \in {"audio", "video"}
    /\ keyFrameSupported \in (IF kind = "video" THEN BOOLEAN ELSE {FALSE})
    /\ paused \in BOOLEAN
    /\ producerPaused = FALSE
    /\ producerClosed = FALSE
    /\ transportConnected = FALSE
    /\ producerRtpStream = FALSE
    /\ syncRequired = FALSE
    /\ packetEventTypes = NoPacketEventTypes
    /\ rtpStreamPaused = (paused \/ producerPaused)
    /\ rtpSeqManager = [base |-> 0, maxOutput |-> 0]
    /\ admitted = <<>>
    /\ nPackets = 0
    /\ last = Result("constructor", <<>>)
    /\ lastRtcpSentTime = 0
    /\ rtpStreamSent = FALSE
    /\ rtcpLog = <<>>
    /\ udpClosed = FALSE
    /\ sentBytes = 0
    /\ udpSends = <<>>
    /\ udpPending = <<>>
    /\ availableBitrate = InitialAvailableBitrate
    /\ availableBitrateEventCalled = FALSE
    /\ lastAvailableBitrateEventAtMs = 0
    /\ tccLog = <<>>

(***************************************************************************)
(* The media path: the transport and producer events, PAUSE and RESUME,    *)
(* and the packets of the Producer.                                        *)
(***************************************************************************)
Next ==
    \/ SendRtpPacket
    \/ TransportConnected
    \/ TransportDisconnected
    \/ ProducerPaused
    \/ ProducerResumed
    \/ ProducerClosed
    \/ ProducerRtpStream
    \/ ProducerNewRtpStream
    \/ ConsumerPause
    \/ ConsumerResume

Spec == Init /\ [][Next]_vars

(***************************************************************************)
(* The control channel: every request method, between the events that      *)
(* change what the requests find.                                          *)
(***************************************************************************)
NextRequests ==
    \/ ConsumerDump
    \/ ConsumerGetStats
    \/ ConsumerPause
    \/ ConsumerResume
    \/ ConsumerEnablePacketEvent
    \/ ConsumerRequestKeyFrame
    \/ UnknownMethod
    \/ TransportConnected
    \/ TransportDisconnected
    \/ ProducerPaused
    \/ ProducerResumed
    \/ ProducerClosed
    \/ ProducerRtpStream
    \/ ReceiveKeyFrameRequest
    \/ ReceiveNack

SpecRequests == Init /\ [][NextRequests]_vars

(***************************************************************************)
(* The forward path with packet events: a Consumer whose "rtp" event may   *)
(* be enabled or disabled over the channel while packets are handed over.  *)
(***************************************************************************)
\* Packets forwarded in one behaviour of this specification.
MaxEventPackets == 1

NextPackets ==
    \/ nPackets < MaxEventPackets /\ SendRtpPacket
    \/ TransportConnected
    \/ ProducerRtpStream
    \/ ConsumerPause
    \/ ConsumerResume
    \/ ConsumerEnablePacketEvent

SpecPackets == Init /\ [][NextPackets]_vars

(***************************************************************************)
(* SimpleConsumer::GetRtcp: the sender reports of the RTCP timer.          *)
(***************************************************************************)
\* GetRtcp calls in one behaviour.
MaxRtcpCalls == 4

\* RTC::RTCP::MaxAudioIntervalMs and MaxVideoIntervalMs.
MaxAudioIntervalMs == 5000
MaxVideoIntervalMs == 1000
\* The factor 1.15 of the interval test, as 115 / 100.
RtcpFactorNum == 115
RtcpFactorDen == 100

\* Set the RTCP report generation interval.
maxRtcpInterval ==
    IF kind = "audio" THEN MaxAudioIntervalMs ELSE MaxVideoIntervalMs

\* The values of nowMs: the times of the interval scenario (0, 1000, 4000,
\* 4500), the last time within and the first time past the interval of each
\* kind (869 and 870, 4347 and 4348), and a time one audio interval after 4500.
TimeValues == {0, 869, 870, 1000, 4000, 4347, 4348, 4500, 8848}

\* (nowMs - lastRtcpSentTime) * 1.15 < maxRtcpInterval.  The difference is one
\* of uint64_t: for nowMs before lastRtcpSentTime it wraps to a value near
\* 2^64, which is not below the interval.  For the other differences the
\* product is never within 0.05 of either interval, so the test on the float
\* is the test on the integers.
GetRtcpSkips(nowMs) ==
    /\ nowMs >= lastRtcpSentTime
    /\ (nowMs - lastRtcpSentTime) * RtcpFactorNum < maxRtcpInterval * RtcpFactorDen

\* RtpStreamSend::GetRtcpSenderReport: null if no packet has been sent.
GetRtcpSenderReport == IF rtpStreamSent THEN "report" ELSE "null"

\* Mutant of GetRtcpOutcome: lastRtcpSentTime is set although the stream gave
\* no report.
GetRtcpOutcomeTimeWithoutReport(nowMs) ==
    IF GetRtcpSkips(nowMs)
    THEN [calls |-> <<>>, lastRtcpSentTime |-> lastRtcpSentTime]
    ELSE IF GetRtcpSenderReport = "null"
    THEN [calls |-> <<"rtpStream.GetRtcpSenderReport">>,
          lastRtcpSentTime |-> nowMs]
    ELSE [calls |-> <<"rtpStream.GetRtcpSenderReport", "packet.AddSenderReport",
                      "rtpStream.GetRtcpSdesChunk", "packet.AddSdesChunk">>,
          lastRtcpSentTime |-> nowMs]

\* Mutant of GetRtcpOutcome: lastRtcpSentTime is not set after a report.
GetRtcpOutcomeNoTimeUpdate(nowMs) ==
    IF GetRtcpSkips(nowMs)
    THEN [calls |-> <<>>, lastRtcpSentTime |-> lastRtcpSentTime]
    ELSE IF GetRtcpSenderReport = "null"
    THEN [calls |-> <<"rtpStream.GetRtcpSenderReport">>,
          lastRtcpSentTime |-> lastRtcpSentTime]
    ELSE [calls |-> <<"rtpStream.GetRtcpSenderReport", "packet.AddSenderReport",
                      "rtpStream.GetRtcpSdesChunk", "packet.AddSdesChunk">>,
          lastRtcpSentTime |-> lastRtcpSentTime]

\* The calls GetRtcp makes and lastRtcpSentTime when it returns.
GetRtcpOutcome(nowMs) ==
    IF GetRtcpSkips(nowMs)
    THEN [calls |-> <<>>, lastRtcpSentTime |-> lastRtcpSentTime]
    ELSE IF GetRtcpSenderReport = "null"
    THEN [calls |-> <<"rtpStream.GetRtcpSenderReport">>,
          lastRtcpSentTime |-> lastRtcpSentTime]
    ELSE [calls |-> <<"rtpStream.GetRtcpSenderReport", "packet.AddSenderReport",
                      "rtpStream.GetRtcpSdesChunk", "packet.AddSdesChunk">>,
          lastRtcpSentTime |-> nowMs]

\* The rtpStream argument of GetRtcp: the Consumer's own send stream or the
\* send stream of another Consumer of the transport.
OwnRtpStream == "rtpStream"
OtherRtpStream == "otherRtpStream"
RtpStreams == {OwnRtpStream, OtherRtpStream}

\* A failed MS_ASSERT aborts the worker: no handler runs afterwards.
Aborted == last.error = "abort"
AbortResult(op, rtpStream) ==
    [Result(op, <<"MS_ABORT">>) EXCEPT !.types = JString(rtpStream),
                                       !.error = "abort"]

\* Mutant of GetRtcp: the stream is compared after the interval test.
GetRtcpAssertsAfterIntervalTest ==
    \E rtpStream \in RtpStreams, nowMs \in TimeValues :
        /\ ~Aborted
        /\ Len(rtcpLog) < MaxRtcpCalls
        /\ IF rtpStream # OwnRtpStream /\ ~GetRtcpSkips(nowMs)
           THEN /\ last' = AbortResult("GetRtcp", rtpStream)
                /\ UNCHANGED <<mediaVars, rtcpVars, udpVars, tccVars>>
           ELSE LET out == GetRtcpOutcome(nowMs)
                IN /\ lastRtcpSentTime' = out.lastRtcpSentTime
                   /\ rtcpLog' = Append(rtcpLog, [nowMs |-> nowMs,
                                                  lastRtcpSentTime |-> lastRtcpSentTime,
                                                  sent |-> rtpStreamSent,
                                                  calls |-> out.calls])
                   /\ last' = [Result("GetRtcp", out.calls)
                                  EXCEPT !.types = JString(rtpStream)]
                   /\ UNCHANGED <<mediaVars, rtpStreamSent, udpVars, tccVars>>

\* One GetRtcp call.  A call with another stream fails the assertion before
\* anything else; for a call that passes it, the log keeps nowMs,
\* lastRtcpSentTime and the packet count test as the call found them, and the
\* calls it made.
GetRtcp ==
    \E rtpStream \in RtpStreams, nowMs \in TimeValues :
        /\ ~Aborted
        /\ Len(rtcpLog) < MaxRtcpCalls
        /\ IF rtpStream # OwnRtpStream
           THEN /\ last' = AbortResult("GetRtcp", rtpStream)
                /\ UNCHANGED <<mediaVars, rtcpVars, udpVars, tccVars>>
           ELSE LET out == GetRtcpOutcome(nowMs)
                IN /\ lastRtcpSentTime' = out.lastRtcpSentTime
                   /\ rtcpLog' = Append(rtcpLog, [nowMs |-> nowMs,
                                                  lastRtcpSentTime |-> lastRtcpSentTime,
                                                  sent |-> rtpStreamSent,
                                                  calls |-> out.calls])
                   /\ last' = [Result("GetRtcp", out.calls)
                                  EXCEPT !.types = JString(rtpStream)]
                   /\ UNCHANGED <<mediaVars, rtpStreamSent, udpVars, tccVars>>

\* RtpStreamSend::ReceivePacket counts a packet it sends: from then on the
\* stream has a sender report to give.
RtpStreamPacketSent ==
    /\ ~Aborted
    /\ ~rtpStreamSent
    /\ rtpStreamSent' = TRUE
    /\ last' = Result("RtpStreamPacketSent", <<>>)
    /\ UNCHANGED <<mediaVars, lastRtcpSentTime, rtcpLog, udpVars, tccVars>>

\* The RTCP timer of the transport calls GetRtcp between the packets of the
\* send stream.
NextRtcp ==
    \/ GetRtcp
    \/ RtpStreamPacketSent

SpecRtcp == Init /\ [][NextRtcp]_vars

(***************************************************************************)
(* UdpSocket (worker/src/handles/UdpSocket.cpp): Send, the completion of   *)
(* an asynchronous send, and Close.  The history of a callback is the      *)
(* sequence of what happened to it: "cb(true)", "cb(false)", "delete cb".  *)
(***************************************************************************)
\* Send calls in one behaviour.
MaxSends == 2
\* The longest datagram.
MaxLen == 2

\* libuv error codes.
UV_EAGAIN == -11
UV_EINVAL == -22
UV_ECANCELED == -125

\* The len argument of Send.
Lens == 0..MaxLen
\* What uv_udp_try_send may return for a datagram of len bytes: the bytes
\* sent, UV_EAGAIN, or another error.
TrySendResults(len) == (0..len) \cup {UV_EAGAIN, UV_EINVAL}
\* What uv_udp_send may return, and the status libuv gives to onSend.
UvResults == {0, UV_EINVAL}
UvStatuses == {0, UV_ECANCELED}

\* (*cb)(ok), for a cb that is not null.
InvokeCb(hasCb, ok) ==
    IF ~hasCb THEN <<>>
    ELSE IF ok THEN <<"cb(true)">> ELSE <<"cb(false)">>
\* (*cb)(ok); delete cb; for a cb that is not null.
InvokeAndDeleteCb(hasCb, ok) ==
    IF ~hasCb THEN <<>> ELSE InvokeCb(hasCb, ok) \o <<"delete cb">>

\* Mutant of SendOutcome: a truncated send counts the whole datagram.
SendOutcomeCountsWholeDatagram(isClosed, len, hasCb, sent, err) ==
    IF isClosed \/ len = 0
    THEN [events |-> InvokeCb(hasCb, FALSE), bytes |-> 0, enqueued |-> FALSE]
    ELSE IF sent = len
    THEN [events |-> InvokeAndDeleteCb(hasCb, TRUE), bytes |-> sent, enqueued |-> FALSE]
    ELSE IF sent >= 0
    THEN [events |-> InvokeAndDeleteCb(hasCb, FALSE), bytes |-> len, enqueued |-> FALSE]
    ELSE IF sent # UV_EAGAIN
    THEN [events |-> InvokeAndDeleteCb(hasCb, FALSE), bytes |-> 0, enqueued |-> FALSE]
    ELSE IF err # 0
    THEN [events |-> InvokeAndDeleteCb(hasCb, FALSE), bytes |-> 0, enqueued |-> FALSE]
    ELSE [events |-> <<>>, bytes |-> len, enqueued |-> TRUE]

\* UdpSocket::Send: what happens to the callback before Send returns, the
\* bytes added to sentBytes, and whether a uv_udp_send request is left with
\* libuv.  sent is the result of uv_udp_try_send and err that of uv_udp_send,
\* where the code gets that far.
SendOutcome(isClosed, len, hasCb, sent, err) ==
    IF isClosed
    THEN [events |-> InvokeCb(hasCb, FALSE), bytes |-> 0, enqueued |-> FALSE]
    ELSE IF len = 0
    THEN [events |-> InvokeCb(hasCb, FALSE), bytes |-> 0, enqueued |-> FALSE]
    ELSE IF sent = len
    THEN [events |-> InvokeAndDeleteCb(hasCb, TRUE), bytes |-> sent, enqueued |-> FALSE]
    ELSE IF sent >= 0
    THEN [events |-> InvokeAndDeleteCb(hasCb, FALSE), bytes |-> sent, enqueued |-> FALSE]
    ELSE IF sent # UV_EAGAIN
    THEN [events |-> InvokeAndDeleteCb(hasCb, FALSE), bytes |-> 0, enqueued |-> FALSE]
    ELSE IF err # 0
    THEN [events |-> InvokeAndDeleteCb(hasCb, FALSE), bytes |-> 0, enqueued |-> FALSE]
    ELSE [events |-> <<>>, bytes |-> len, enqueued |-> TRUE]

\* One Send call.  The record of the call keeps its arguments, what libuv
\* answered (where it was asked), sentBytes before and after, and the history
\* of the callback.
UdpSend ==
    \E len \in Lens, hasCb \in BOOLEAN :
        \E sent \in TrySendResults(len), err \in UvResults :
            LET tried == ~udpClosed /\ len # 0
                out == SendOutcome(udpClosed, len, hasCb, sent, err)
            IN /\ Len(udpSends) < MaxSends
               /\ tried \/ (sent = 0 /\ err = 0)
               /\ (tried /\ sent # UV_EAGAIN) => err = 0
               /\ sentBytes' = sentBytes + out.bytes
               /\ udpSends' = Append(udpSends,
                      [len |-> len, hasCb |-> hasCb, closed |-> udpClosed,
                       tried |-> tried, sent |-> sent, err |-> err,
                       enqueued |-> out.enqueued, completed |-> FALSE,
                       closedAtCompletion |-> FALSE, status |-> 0,
                       sentBytesBefore |-> sentBytes,
                       sentBytesAfter |-> sentBytes + out.bytes,
                       events |-> out.events])
               /\ udpPending' = (IF out.enqueued
                                 THEN Append(udpPending, Len(udpSends) + 1)
                                 ELSE udpPending)
               /\ last' = Result("UdpSocket::Send", out.events)
               /\ UNCHANGED <<mediaVars, rtcpVars, tccVars, udpClosed>>

\* UdpSocket::OnUvSend.
OnUvSend(status, hasCb) ==
    IF status = 0 THEN InvokeCb(hasCb, TRUE) ELSE InvokeCb(hasCb, FALSE)

\* onSend: libuv completes the oldest request.  The socket is reached
\* through handle->data, which Close has set to nullptr.
UvOnSend ==
    \E status \in UvStatuses :
        LET i == Head(udpPending)
            hasCb == udpSends[i].hasCb
            socket == ~udpClosed
            events == (IF socket THEN OnUvSend(status, hasCb) ELSE <<>>)
                          \o (IF hasCb THEN <<"delete cb">> ELSE <<>>)
        IN /\ udpPending # <<>>
           /\ udpPending' = Tail(udpPending)
           /\ udpSends' = [udpSends EXCEPT
                              ![i].completed = TRUE,
                              ![i].closedAtCompletion = udpClosed,
                              ![i].status = status,
                              ![i].events = @ \o events]
           /\ last' = Result("onSend", events)
           /\ UNCHANGED <<mediaVars, rtcpVars, tccVars, udpClosed, sentBytes>>

\* UdpSocket::Close.
UdpClose ==
    IF udpClosed
    THEN /\ last' = Result("UdpSocket::Close", <<>>)
         /\ UNCHANGED <<mediaVars, rtcpVars, tccVars, udpVars>>
    ELSE /\ udpClosed' = TRUE
         /\ last' = Result("UdpSocket::Close", <<"uv_udp_recv_stop", "uv_close">>)
         /\ UNCHANGED <<mediaVars, rtcpVars, tccVars, sentBytes, udpSends, udpPending>>

NextUdp ==
    \/ UdpSend
    \/ UvOnSend
    \/ UdpClose

SpecUdp == Init /\ [][NextUdp]_vars

NextTcc == OnTargetTransferRate

SpecTcc == Init /\ [][NextTcc]_vars

(***************************************************************************)
(* Properties.                                                             *)
(***************************************************************************)
Transmitted(r) == Count("OnConsumerSendRtpPacket", r.calls)
Accepts(r) == Count("Accept", r.calls)
\* a is ahead of b: strictly increasing modulo 2^16.
Ahead(a, b) == Mod16(a - b) \in 1..(SeqHalf - 1)
Newest == admitted[Len(admitted)]

\* C1: SendRtpPacket calls the listener's transmission callback only while
\* the transport is connected, the Consumer and the Producer are not paused,
\* the Producer is not closed and a producer stream is set (SendRtpPacket
\* changes none of these, so they are those of the moment of dispatch); a
\* packet fed to a Consumer that is not active is not transmitted.
C1_ActiveGate ==
    (last.op = "SendRtpPacket" /\ Transmitted(last) > 0) =>
        /\ transportConnected
        /\ ~paused
        /\ ~producerPaused
        /\ ~producerClosed
        /\ producerRtpStream

\* A packet is transmitted by a Consumer whose send stream was paused before,
\* that is after a pause or a disconnect and the resume or reconnect.
C1_Witness ==
    /\ last.op = "SendRtpPacket"
    /\ Transmitted(last) = 1
    /\ rtpStreamPaused
    /\ nPackets >= 2

\* C2: a SendRtpPacket call with a packet that is not a key frame, made while
\* syncRequired and keyFrameSupported, transmits nothing and leaves
\* syncRequired set.
C2_KeyFrameGating ==
    [][(/\ syncRequired
        /\ keyFrameSupported
        /\ last'.op = "SendRtpPacket"
        /\ ~last'.entry.isKeyFrame)
       => (Transmitted(last') = 0 /\ syncRequired')]_vars

\* An active Consumer waiting for a key frame was fed a packet of a supported
\* payload type that is not a key frame.
C2_Witness ==
    /\ last.op = "SendRtpPacket"
    /\ ~last.entry.isKeyFrame
    /\ last.entry.payloadType \in supportedCodecPayloadTypes
    /\ IsActive
    /\ syncRequired
    /\ keyFrameSupported

\* C3: when SendRtpPacket returns, the SSRC and the sequence number of the
\* packet are those it had on entry, on every path.
C3_PacketRestored ==
    last.op = "SendRtpPacket" =>
        /\ last.ret.ssrc = last.entry.ssrc
        /\ last.ret.seq = last.entry.seq

\* The packet went to the listener with another SSRC and another sequence
\* number than it came with.
C3_Witness ==
    /\ last.op = "SendRtpPacket"
    /\ Transmitted(last) = 1
    /\ last.wire.ssrc # last.entry.ssrc
    /\ last.wire.seq # last.entry.seq

\* C4: of two packets admitted one after the other with no resync between
\* them, the rewritten sequence numbers differ, modulo 2^16, by what the
\* original ones differ (hence so do those of any two packets of an epoch).
C4_GapPreserved ==
    (Len(admitted) = 2 /\ ~admitted[2].sync) =>
        Mod16(admitted[2].wire - admitted[1].wire)
            = Mod16(admitted[2].orig - admitted[1].orig)

\* The original sequence numbers wrapped around 65535 between the two packets,
\* and the rewritten ones are not the original ones.
C4_Witness ==
    /\ Len(admitted) = 2
    /\ ~admitted[2].sync
    /\ admitted[1].orig = 65535
    /\ admitted[2].orig = 0
    /\ admitted[2].wire # admitted[2].orig

\* C5 as stated: the sequence number of every admitted packet is ahead of that
\* of the packet admitted before it, whatever the order of the original ones.
C5_Original ==
    Len(admitted) = 2 => Ahead(admitted[2].wire, admitted[1].wire)

\* C5 as amended: the sequence number of an admitted packet P2 is ahead of
\* that of the packet P1 admitted before it when P2 follows P1 in the same
\* epoch and its original sequence number is ahead of that of P1, or when P2
\* is the first packet after a resync and P1 had the highest sequence number
\* emitted so far.
C5_MonotonicInOrder ==
    [][(nPackets' = nPackets + 1 /\ admitted # <<>>) =>
        LET p1 == Newest
            p2 == Newest'
        IN (IF p2.sync THEN p1.wire = rtpSeqManager.maxOutput
                       ELSE Ahead(p2.orig, p1.orig))
              => Ahead(p2.wire, p1.wire)]_vars

\* A packet was admitted after a resync, behind a packet whose original
\* sequence number was higher.
C5_Witness ==
    /\ Len(admitted) = 2
    /\ admitted[2].sync
    /\ Ahead(admitted[1].orig, admitted[2].orig)
    /\ Ahead(admitted[2].wire, admitted[1].wire)

\* C6: a PAUSE on a Consumer that is not paused sets paused, calls
\* UserOnPaused (which pauses the send stream) exactly when the Consumer was
\* active, and changes nothing else; a PAUSE on a paused Consumer changes
\* nothing; both call Accept once.  While the Consumer stays paused no step
\* transmits a packet or calls UserOnPaused again.
C6_Pause ==
    [][/\ (last'.op = "CONSUMER_PAUSE" /\ ~paused) =>
            /\ paused'
            /\ Count("UserOnPaused", last'.calls) = (IF IsActive THEN 1 ELSE 0)
            /\ rtpStreamPaused' = (IsActive \/ rtpStreamPaused)
            /\ Accepts(last') = 1 /\ last'.error = "none"
            /\ UNCHANGED <<kind, keyFrameSupported, producerPaused, producerClosed,
                           transportConnected, producerRtpStream, syncRequired,
                           packetEventTypes, rtpSeqManager>>
       /\ (last'.op = "CONSUMER_PAUSE" /\ paused) =>
            /\ UNCHANGED consumerVars
            /\ last'.calls = <<"Accept">> /\ last'.error = "none"
       /\ (paused /\ paused') =>
            /\ Transmitted(last') = 0
            /\ Count("UserOnPaused", last'.calls) = 0]_vars

\* A Consumer that had forwarded packets was paused while active.
C6_Witness ==
    /\ last.op = "CONSUMER_PAUSE"
    /\ Count("UserOnPaused", last.calls) = 1
    /\ Count("rtpStream.Pause", last.calls) = 1
    /\ nPackets >= 1

\* C7: a RESUME on a Consumer that is not paused calls Accept and does nothing
\* else: no state changes, syncRequired is not set, no key frame is requested.
C7_ResumeIdempotent ==
    [][(last'.op = "CONSUMER_RESUME" /\ ~paused) =>
        /\ UNCHANGED <<consumerVars, admitted, nPackets>>
        /\ last'.calls = <<"Accept">>
        /\ last'.error = "none"]_vars

\* RESUME was handled by an active video Consumer that needs no sync (had it
\* been paused, it would have become active and called UserOnResumed).
C7_Witness ==
    /\ last.op = "CONSUMER_RESUME"
    /\ last.calls = <<"Accept">>
    /\ IsActive
    /\ kind = "video"
    /\ ~syncRequired

\* The "types" member is an array of strings / the strings of the array.
ValidTypes(types) ==
    /\ types.type = "array"
    /\ \A i \in 1..Len(types.items) : types.items[i].type = "string"
Names(types) == {types.items[i].str : i \in 1..Len(types.items)}

\* C8: ENABLE_PACKET_EVENT with an array of strings is accepted and leaves
\* enabled exactly the recognised names of the array, whatever was enabled
\* before; afterwards an event of a type is emitted exactly if its name was in
\* the array.
C8_EnableReplaces ==
    (last.op = "CONSUMER_ENABLE_PACKET_EVENT" /\ ValidTypes(last.types)) =>
        /\ last.calls = <<"Accept">>
        /\ last.error = "none"
        /\ packetEventTypes.rtp = ("rtp" \in Names(last.types))
        /\ packetEventTypes.nack = ("nack" \in Names(last.types))
        /\ packetEventTypes.pli = ("pli" \in Names(last.types))
        /\ packetEventTypes.fir = ("fir" \in Names(last.types))
        /\ (EmitPacketEventRtpType # <<>>) = ("rtp" \in Names(last.types))
        /\ (EmitPacketEventNackType # <<>>) = ("nack" \in Names(last.types))
        /\ (EmitPacketEventPliType # <<>>) = ("pli" \in Names(last.types))
        /\ (EmitPacketEventFirType # <<>>) = ("fir" \in Names(last.types))

\* The request with ["rtp", "garbage", "nack"] was handled: rtp and nack
\* events are emitted, pli and fir events are not.
C8_Witness ==
    /\ last.op = "CONSUMER_ENABLE_PACKET_EVENT"
    /\ last.types = TypesArray(ScenarioTypes)
    /\ EmitPacketEventRtpType = <<"Emit:packet:rtp">>
    /\ EmitPacketEventNackType = <<"Emit:packet:nack">>
    /\ EmitPacketEventPliType = <<>>
    /\ EmitPacketEventFirType = <<>>

\* C9: ENABLE_PACKET_EVENT whose "types" is missing, is not an array, or holds
\* an element that is not a string raises a TypeError, does not call Accept,
\* and leaves every field of the Consumer as it was.
C9_MalformedEnableRejected ==
    [][(last'.op = "CONSUMER_ENABLE_PACKET_EVENT" /\ ~ValidTypes(last'.types)) =>
        /\ last'.error = "TypeError"
        /\ Accepts(last') = 0
        /\ UNCHANGED <<consumerVars, admitted, nPackets>>]_vars

\* An array with a value that is not a string after a recognised name was
\* rejected by a Consumer whose rtp events stay enabled.
C9_Witness ==
    /\ last.op = "CONSUMER_ENABLE_PACKET_EVENT"
    /\ last.types = TypesArray(MalformedTypes)
    /\ last.error = "TypeError"
    /\ packetEventTypes.rtp
    /\ ~packetEventTypes.pli

RequestMethods ==
    {"CONSUMER_DUMP", "CONSUMER_GET_STATS", "CONSUMER_PAUSE", "CONSUMER_RESUME",
     "CONSUMER_ENABLE_PACKET_EVENT", "CONSUMER_REQUEST_KEY_FRAME", "UNKNOWN"}

\* C10: a request either calls Accept exactly once and raises no error, or
\* raises an error and never calls Accept.
C10_OneOutcome ==
    last.op \in RequestMethods =>
        \/ (Accepts(last) = 1 /\ last.error = "none")
        \/ (Accepts(last) = 0 /\ last.error # "none")

\* A request with an unknown method id was handled by an active Consumer.
C10_Witness ==
    /\ last.op = "UNKNOWN"
    /\ last.error = "Error"
    /\ Accepts(last) = 0
    /\ IsActive

\* C11: ProducerPaused on a Consumer whose Producer is already paused, and
\* ProducerResumed on one whose Producer is not paused, change nothing and
\* make no call (no UserOnPaused, no UserOnResumed, no notification); a step
\* emits producerpause exactly once when it sets producerPaused and not
\* otherwise, and producerresume exactly once when it clears producerPaused
\* and not otherwise.
C11_ProducerPauseIdempotent ==
    [][/\ (last'.op = "ProducerPaused" /\ producerPaused) =>
            /\ UNCHANGED <<consumerVars, admitted, nPackets>>
            /\ last'.calls = <<>>
       /\ (last'.op = "ProducerResumed" /\ ~producerPaused) =>
            /\ UNCHANGED <<consumerVars, admitted, nPackets>>
            /\ last'.calls = <<>>
       /\ Count("Emit:producerpause", last'.calls)
             = (IF ~producerPaused /\ producerPaused' THEN 1 ELSE 0)
       /\ Count("Emit:producerresume", last'.calls)
             = (IF producerPaused /\ ~producerPaused' THEN 1 ELSE 0)]_vars

\* ProducerPaused came again for a Producer already paused, on a Consumer
\* that would otherwise be active and has forwarded packets.
C11_Witness ==
    /\ last.op = "ProducerPaused"
    /\ last.calls = <<>>
    /\ producerPaused
    /\ IsActiveOf([Flags EXCEPT !.producerPaused = FALSE])
    /\ nPackets >= 1

\* C12: ProducerClosed on a Consumer whose producerClosed is already set
\* returns early: it emits no producerclose notification, does not signal
\* OnConsumerProducerClosed and changes no field.
C12_ProducerClosedIdempotent ==
    [][(last'.op = "ProducerClosed" /\ producerClosed) =>
        /\ Count("Emit:producerclose", last'.calls) = 0
        /\ Count("OnConsumerProducerClosed", last'.calls) = 0
        /\ UNCHANGED <<consumerVars, admitted, nPackets>>]_vars

KeyFrameRequests(r) == Count("OnConsumerKeyFrameRequested", r.calls)

LogSkips(e) ==
    /\ e.nowMs >= e.lastRtcpSentTime
    /\ (e.nowMs - e.lastRtcpSentTime) * RtcpFactorNum < maxRtcpInterval * RtcpFactorDen
Emitted(e) == Count("packet.AddSenderReport", e.calls) = 1
LastCall == rtcpLog[Len(rtcpLog)]

\* C14 as stated: a GetRtcp call for the Consumer's own stream for which
\* (nowMs - lastRtcpSentTime) * 1.15 is below maxRtcpInterval appends nothing
\* and leaves lastRtcpSentTime; every other call appends a sender report and an SDES chunk and sets
\* lastRtcpSentTime to nowMs.
C14_Original ==
    (last.op = "GetRtcp" /\ ~Aborted) =>
        IF LogSkips(LastCall)
        THEN /\ LastCall.calls = <<>>
             /\ lastRtcpSentTime = LastCall.lastRtcpSentTime
        ELSE /\ Count("packet.AddSenderReport", LastCall.calls) = 1
             /\ Count("packet.AddSdesChunk", LastCall.calls) = 1
             /\ lastRtcpSentTime = LastCall.nowMs

\* C14 as amended: a GetRtcp call for the Consumer's own stream for which
\* (nowMs - lastRtcpSentTime) * 1.15 is below maxRtcpInterval appends nothing
\* and leaves lastRtcpSentTime; any other call asks the send stream for a sender report and, if the stream
\* gives one, appends it and then an SDES chunk and sets lastRtcpSentTime to
\* nowMs; if the stream gives none (it has sent no packet) the call appends
\* nothing and leaves lastRtcpSentTime.
C14_RtcpEmission ==
    (last.op = "GetRtcp" /\ ~Aborted) =>
        IF LogSkips(LastCall)
        THEN /\ LastCall.calls = <<>>
             /\ lastRtcpSentTime = LastCall.lastRtcpSentTime
        ELSE IF LastCall.sent
        THEN /\ LastCall.calls = <<"rtpStream.GetRtcpSenderReport",
                                   "packet.AddSenderReport",
                                   "rtpStream.GetRtcpSdesChunk",
                                   "packet.AddSdesChunk">>
             /\ lastRtcpSentTime = LastCall.nowMs
        ELSE /\ Count("packet.AddSenderReport", LastCall.calls) = 0
             /\ Count("packet.AddSdesChunk", LastCall.calls) = 0
             /\ lastRtcpSentTime = LastCall.lastRtcpSentTime

\* An audio Consumer whose stream has sent packets skipped the call at 4347 ms
\* and appended a sender report at 4348 ms.
C14_Witness ==
    /\ kind = "audio"
    /\ Len(rtcpLog) >= 2
    /\ rtcpLog[Len(rtcpLog) - 1].nowMs = 4347
    /\ rtcpLog[Len(rtcpLog) - 1].sent
    /\ rtcpLog[Len(rtcpLog) - 1].calls = <<>>
    /\ LastCall.nowMs = 4348
    /\ Emitted(LastCall)
    /\ lastRtcpSentTime = 4348

\* C15: on an audio Consumer whose stream has sent packets, GetRtcp calls at
\* 0, 1000, 4000 and 4500 ms from construction append a sender report at 0
\* and at 4500 and none at 1000 and at 4000.
C15_IntervalScenario ==
    (/\ kind = "audio"
     /\ Len(rtcpLog) = 4
     /\ \A i \in 1..4 : rtcpLog[i].sent
     /\ rtcpLog[1].nowMs = 0 /\ rtcpLog[2].nowMs = 1000
     /\ rtcpLog[3].nowMs = 4000 /\ rtcpLog[4].nowMs = 4500) =>
        /\ Emitted(rtcpLog[1])
        /\ ~Emitted(rtcpLog[2])
        /\ ~Emitted(rtcpLog[3])
        /\ Emitted(rtcpLog[4])

NonDecreasing(log) ==
    \A i \in 1..(Len(log) - 1) : log[i].nowMs <= log[i + 1].nowMs
\* The least integer not below a / b.
CeilDiv(a, b) == (a + b - 1) \div b

\* C16: in a sequence of GetRtcp calls whose nowMs never decreases, any two
\* calls that append a sender report are at least maxRtcpInterval / 1.15
\* apart, and the calls that append one within any window of length W are at
\* most ceil(W * 1.15 / maxRtcpInterval) + 1.
C16_RtcpCadence ==
    NonDecreasing(rtcpLog) =>
        \A i, j \in 1..Len(rtcpLog) :
            (i <= j /\ Emitted(rtcpLog[i]) /\ Emitted(rtcpLog[j])) =>
                LET W == rtcpLog[j].nowMs - rtcpLog[i].nowMs
                IN /\ i < j => W * RtcpFactorNum >= maxRtcpInterval * RtcpFactorDen
                   /\ Cardinality({k \in i..j : Emitted(rtcpLog[k])})
                        <= CeilDiv(W * RtcpFactorNum,
                                   maxRtcpInterval * RtcpFactorDen) + 1

\* Three sender reports in four calls whose nowMs never decreases, one of the
\* four being skipped although the stream had sent packets.
C16_Witness ==
    /\ Len(rtcpLog) = 4
    /\ NonDecreasing(rtcpLog)
    /\ Cardinality({k \in 1..4 : Emitted(rtcpLog[k])}) = 3
    /\ \E k \in 2..4 : rtcpLog[k].sent /\ rtcpLog[k].calls = <<>>

\* The Send call r: how often its callback was invoked, and whether nothing
\* more will happen to it (Send has returned and no request is with libuv).
Invocations(r) == Count("cb(true)", r.events) + Count("cb(false)", r.events)
Settled(r) == ~r.enqueued \/ r.completed

\* C17: the callback of every Send call is invoked exactly once, on every
\* path of Send and of the asynchronous completion, and with failure when the
\* socket was closed before the completion.
C17_CallbackOnce ==
    \A i \in 1..Len(udpSends) :
        (udpSends[i].hasCb /\ Settled(udpSends[i])) =>
            /\ Invocations(udpSends[i]) = 1
            /\ (udpSends[i].enqueued /\ udpSends[i].closedAtCompletion) =>
                   Count("cb(false)", udpSends[i].events) = 1

\* C18: the callback of every Send call is destroyed exactly once, after its
\* one invocation, on every path of Send and of the asynchronous completion.
C18_CallbackDestroyedOnce ==
    \A i \in 1..Len(udpSends) :
        (udpSends[i].hasCb /\ Settled(udpSends[i])) =>
            /\ Len(udpSends[i].events) = 2
            /\ udpSends[i].events[1] \in {"cb(true)", "cb(false)"}
            /\ udpSends[i].events[2] = "delete cb"

\* C19: a Send on an open socket whose uv_udp_try_send sends k bytes of a
\* datagram of len > k adds k to sentBytes, invokes the callback with false
\* and leaves no request with libuv; one that sends all len bytes adds len and
\* invokes the callback with true.
C19_TruncatedSend ==
    \A i \in 1..Len(udpSends) :
        LET r == udpSends[i]
        IN (r.tried /\ r.sent >= 0) =>
            IF r.sent = r.len
            THEN /\ r.sentBytesAfter = r.sentBytesBefore + r.len
                 /\ r.hasCb => (r.events[1] = "cb(true)" /\ Invocations(r) = 1)
                 /\ ~r.enqueued
            ELSE /\ r.sentBytesAfter = r.sentBytesBefore + r.sent
                 /\ r.hasCb => (r.events[1] = "cb(false)" /\ Invocations(r) = 1)
                 /\ ~r.enqueued

\* After a datagram sent whole, one byte of a datagram of two was sent: the
\* counter went from 2 to 3 and the callback got false.
C19_Witness ==
    /\ Len(udpSends) = 2
    /\ udpSends[1].tried /\ udpSends[1].sent = udpSends[1].len
    /\ udpSends[2].tried /\ udpSends[2].hasCb
    /\ udpSends[2].len = 2 /\ udpSends[2].sent = 1
    /\ udpSends[2].sentBytesBefore = 2
    /\ sentBytes = 3
    /\ udpSends[2].events = <<"cb(false)", "delete cb">>

\* The MayEmitAvailableBitrateEvent call r of the log: it emitted the event;
\* its change is within the threshold, it comes before the end of the
\* interval since the last event, and the trend is stable.
Fired(r) == Count("OnTransportCongestionControlClientAvailableBitrate", r.calls) = 1
Suppressible(r) ==
    /\ ~AboveThreshold(r.previous, r.current)
    /\ r.nowMs - r.lastEventAtMs < AvailableBitrateEventInterval
    /\ r.stable

RtpEvents(r) == Count("Emit:packet:rtp", r.calls)
StreamAccepted(r) == Count("rtpStream.ReceivePacket:true", r.calls)
StreamRejected(r) == Count("rtpStream.ReceivePacket:false", r.calls)

\* C21: for a packet that passes the gates, SendRtpPacket calls the
\* transmission callback exactly if the send stream's ReceivePacket returned
\* true, and emits the "rtp" packet event exactly if the packet was also
\* transmitted and the "rtp" type is enabled, the callback first; each happens
\* at most once per packet, and a packet the stream rejects or a gate drops
\* yields neither.
C21_ForwardPathResult ==
    last.op = "SendRtpPacket" =>
        /\ StreamAccepted(last) + StreamRejected(last) <= 1
        /\ Transmitted(last) = StreamAccepted(last)
        /\ RtpEvents(last) =
               (IF StreamAccepted(last) = 1 /\ packetEventTypes.rtp THEN 1 ELSE 0)
        /\ RtpEvents(last) = 1 =>
               last.calls = <<"rtpStream.ReceivePacket:true",
                              "OnConsumerSendRtpPacket", "Emit:packet:rtp">>

\* A transmitted packet with the "rtp" event enabled and emitted.
C21_Witness ==
    /\ last.op = "SendRtpPacket"
    /\ packetEventTypes.rtp
    /\ Transmitted(last) = 1
    /\ RtpEvents(last) = 1

\* C22: an audio Consumer never calls the listener's
\* OnConsumerKeyFrameRequested, whatever the operation (TransportConnected,
\* RESUME, ProducerResumed, REQUEST_KEY_FRAME, an incoming PLI or FIR); a video
\* Consumer calls it on REQUEST_KEY_FRAME or on an incoming key-frame request
\* only if it is active; the REQUEST_KEY_FRAME request is accepted either way.
C22_KeyFrameRequestGate ==
    /\ kind = "audio" => KeyFrameRequests(last) = 0
    /\ (/\ kind = "video"
        /\ last.op \in {"CONSUMER_REQUEST_KEY_FRAME", "ReceiveKeyFrameRequest"}
        /\ KeyFrameRequests(last) > 0)
           => IsActive /\ KeyFrameRequests(last) = 1
    /\ last.op = "CONSUMER_REQUEST_KEY_FRAME" =>
           Accepts(last) = 1 /\ last.error = "none"

\* An active audio Consumer has received a PLI.
C22_Witness ==
    /\ kind = "audio"
    /\ IsActive
    /\ last.op = "ReceiveKeyFrameRequest"
    /\ last.types = JString("PLI")
    /\ KeyFrameRequests(last) = 0

\* C23: a GetRtcp call with a send stream other than the Consumer's own fails
\* the assertion and aborts, whatever the interval test would have said: it
\* appends no report and leaves lastRtcpSentTime, and nothing runs afterwards.
C23_StreamMismatchAborts ==
    [][/\ (last'.op = "GetRtcp" /\ last'.types = JString(OtherRtpStream)) =>
            /\ last'.error = "abort"
            /\ last'.calls = <<"MS_ABORT">>
            /\ lastRtcpSentTime' = lastRtcpSentTime
            /\ rtcpLog' = rtcpLog
       /\ ~Aborted]_vars

\* The assertion fired on a Consumer that had appended a report before and
\* whose stream had a report to give.
C23_Witness ==
    /\ Aborted
    /\ last.op = "GetRtcp"
    /\ rtpStreamSent
    /\ Len(rtcpLog) >= 1
    /\ Emitted(LastCall)
    /\ lastRtcpSentTime = LastCall.nowMs

\* The Send call failed: its callback was invoked with false, or the datagram
\* was queued and its completion reported an error or found the socket closed.
SendFailed(r) ==
    \/ Count("cb(false)", r.events) > 0
    \/ r.enqueued /\ r.completed /\ (r.status # 0 \/ r.closedAtCompletion)
\* The bytes of the datagram that went out: what uv_udp_try_send reported for
\* a synchronous send, and the whole datagram for a queued one that completed
\* without error.
BytesActuallySent(r) ==
    IF r.tried /\ r.sent >= 0 THEN r.sent
    ELSE IF r.enqueued /\ r.completed /\ r.status = 0 /\ ~r.closedAtCompletion
    THEN r.len
    ELSE 0

\* C24: for every Send call that failed, sentBytes has grown by no more than
\* the bytes actually sent; a datagram queued after EAGAIN whose completion
\* reports an error, or whose socket is closed before the completion, does not
\* add its length to sentBytes.
C24_SentBytesOnFailure ==
    \A i \in 1..Len(udpSends) :
        (Settled(udpSends[i]) /\ SendFailed(udpSends[i])) =>
            udpSends[i].sentBytesAfter - udpSends[i].sentBytesBefore
                <= BytesActuallySent(udpSends[i])

\* C25: every step that takes the Consumer from not active to active
\* (TransportConnected, RESUME, ProducerResumed, or the arrival of a producer
\* stream) ends with syncRequired set; syncRequired is cleared only by
\* forwarding a packet, and the packet forwarded while it is set is handled as
\* a sync packet: so the first packet forwarded after an inactive period
\* always is.
C25_ResyncAfterInactivity ==
    [][/\ (~IsActive /\ IsActive') => syncRequired'
       /\ (syncRequired /\ ~syncRequired') =>
              /\ IsActive
              /\ nPackets' = nPackets + 1
              /\ Newest'.sync
              /\ Newest'.wire = Mod16(rtpSeqManager.maxOutput + 1)]_vars

\* A producer stream has arrived at a connected Consumer that never forwarded
\* a packet: the Consumer is active and a sync is pending.
C25_Witness ==
    /\ last.op \in {"ProducerRtpStream", "ProducerNewRtpStream"}
    /\ IsActive
    /\ nPackets = 0
    /\ syncRequired

\* The step was the arrival of a producer stream.
StreamArrival(r) == r.op \in {"ProducerRtpStream", "ProducerNewRtpStream"}

\* C26 as stated: every step that takes a video Consumer from not active to
\* active issues a key-frame request to the listener, also when the step is
\* the arrival of a producer stream at a connected Consumer.
C26_Original ==
    [][(kind = "video" /\ ~IsActive /\ IsActive') =>
           KeyFrameRequests(last') = 1]_vars

\* C26 as amended: a step that takes a video Consumer from not active to
\* active issues exactly one key-frame request to the listener if it is
\* TransportConnected, RESUME or ProducerResumed, and none if it is the
\* arrival of a producer stream.
C26_KeyFrameOnActivation ==
    [][(kind = "video" /\ ~IsActive /\ IsActive') =>
           KeyFrameRequests(last') = (IF StreamArrival(last') THEN 0 ELSE 1)]_vars

\* A producer stream has arrived at a connected video Consumer with key
\* frames: it is active and waits for a key frame it has not requested.
C26_Witness ==
    /\ kind = "video" /\ keyFrameSupported
    /\ last.op = "ProducerNewRtpStream"
    /\ IsActive
    /\ syncRequired
    /\ nPackets = 0
    /\ KeyFrameRequests(last) = 0

\* Calls of the send stream's Pause and Resume in a result.
StreamPauses(r) == Count("rtpStream.Pause", r.calls)
StreamResumes(r) == Count("rtpStream.Resume", r.calls)

\* C27: the send stream is paused at construction exactly if the Consumer is
\* created paused; afterwards rtpStream.Pause() is called by the pause hook
\* (PAUSE, ProducerPaused) and by the transport-disconnected hook only, and
\* no step calls rtpStream.Resume(): once the stream's pause bit is set it
\* stays set, also while the Consumer is active again and forwards packets.
C27_StreamOnlyPaused ==
    /\ rtpStreamPaused = paused
    /\ [][/\ rtpStreamPaused => rtpStreamPaused'
          /\ StreamResumes(last') = 0
          /\ StreamPauses(last') > 0 =>
                 /\ last'.op \in {"CONSUMER_PAUSE", "ProducerPaused",
                                   "TransportDisconnected"}
                 /\ rtpStreamPaused'
          /\ (last'.op = "TransportDisconnected"
                  \/ (last'.op \in {"CONSUMER_PAUSE", "ProducerPaused"}
                         /\ IsActive /\ ~IsActive')) =>
                 StreamPauses(last') = 1]_vars

\* An active Consumer forwards a packet through a send stream whose pause bit
\* is set.
C27_Witness ==
    /\ rtpStreamPaused
    /\ IsActive
    /\ last.op = "SendRtpPacket"
    /\ Transmitted(last) = 1
    /\ nPackets >= 1

\* Calls of a ReceiveNack result.
NackEvents(r) == Count("Emit:packet:nack", r.calls)
StreamNacks(r) == Count("rtpStream.ReceiveNack", r.calls)
Retransmissions(r) == Count("OnConsumerRetransmitRtpPacket", r.calls)

\* C28: ReceiveNack on a Consumer that is not active emits no nack event and
\* does not pass the NACK to the send stream, so no step of a Consumer that is
\* not active reaches the listener's OnConsumerRetransmitRtpPacket; on an
\* active Consumer the nack event is emitted exactly if the type is enabled
\* and before the send stream processes the NACK, and every retransmitted
\* packet yields one retransmit callback, after the stream took the NACK,
\* followed by at most one rtp event (one exactly if the type is enabled).
C28_NackGate ==
    /\ Retransmissions(last) > 0 => (last.op = "ReceiveNack" /\ IsActive)
    /\ last.op = "ReceiveNack" =>
           LET calls == last.calls
           IN IF ~IsActive
              THEN calls = <<>>
              ELSE /\ StreamNacks(last) = 1
                   /\ NackEvents(last) = (IF packetEventTypes.nack THEN 1 ELSE 0)
                   /\ NackEvents(last) = 1 =>
                          calls[1] = "Emit:packet:nack"
                              /\ calls[2] = "rtpStream.ReceiveNack"
                   /\ NackEvents(last) = 0 => calls[1] = "rtpStream.ReceiveNack"
                   /\ RtpEvents(last) =
                          (IF packetEventTypes.rtp THEN Retransmissions(last) ELSE 0)
                   /\ \A i \in 1..Len(calls) :
                          calls[i] = "Emit:packet:rtp" =>
                              i > 1 /\ calls[i - 1] = "OnConsumerRetransmitRtpPacket"

\* An active Consumer with the nack and rtp events enabled took a NACK for
\* which the send stream retransmitted two packets.
C28_Witness ==
    /\ last.op = "ReceiveNack"
    /\ IsActive
    /\ packetEventTypes.nack /\ packetEventTypes.rtp
    /\ Retransmissions(last) = 2
    /\ RtpEvents(last) = 2
    /\ NackEvents(last) = 1

====
